---- MODULE Spec2Model ----
(***************************************************************************)
(* A model of jgod::reactive::Component (src/src/reactive.h): a component  *)
(* tree with keyed children, a non-owning parent back-reference, and the   *)
(* setState update protocol (shallow merge, update gate, pre/post hooks,   *)
(* forced render, completion callback).                                    *)
(***************************************************************************)
EXTENDS Integers, Sequences, FiniteSets, TLC

\* ------------------------------------------------------------------ bounds
\* Longest NodeList handed to the constructor or to addChildren.
MaxList == 2
\* setState calls a hook may start re-entrantly within one top-level call.
MaxNested == 1
\* Children-list operations performed after the constructions.
MaxOps == 2
\* Top-level setState / forceUpdate calls performed after the constructions.
MaxUpdates == 2

\* ------------------------------------------------------------ input domains
\* The Component objects the program creates: a "test" component and two
\* default-keyed ones, as in tests/main.cpp.
Nodes == {1, 2, 3}
KeyOf(n) == IF n = 1 THEN "test" ELSE ""
\* Keys the third component may be given instead, so that a list can hold
\* either three distinct keys or two components with one key.
KeysFor(n) == IF n = 3 THEN {"", "k"} ELSE {KeyOf(n)}
\* A null SharedComponent / a null Component*.
Null == 0
\* Keys handed to removeChild(key) ("" is the default key, "k" matches nobody).
Keys == {"", "test", "k"}
NoKey == "<unconstructed>"
\* Top-level keys of a state document, and the leaf values they hold.
DocKeys == {"a", "b", "c"}
Absent == "absent"
Vals == {"v1", "v2"}
\* A JSON document: each top-level key is Absent or holds a value.
Docs == [DocKeys -> Vals \cup {Absent}]
\* JSON(): the null document, which holds no key.
EmptyDoc == [k \in DocKeys |-> Absent]
\* The partial states callers hand to setState.
Partials == {EmptyDoc,
             [EmptyDoc EXCEPT !["c"] = "v1"],
             [a |-> "v1", b |-> "v2", c |-> Absent],
             [a |-> Absent, b |-> "v1", c |-> "v2"]}
DocKeysOf(d) == {k \in DocKeys : d[k] # Absent}
\* The props each component is constructed with (opaque to the core).
PropsOf(n) == IF n = 1 THEN "{className}" ELSE "{}"
\* Completion callbacks: the default no-op lambda and a caller's own.
DefaultCb == "default"
Callbacks == {DefaultCb, "cb1"}
\* A hook that re-enters setState passes a partial state and no callback.
CallbacksAt(stk) == IF stk = <<>> THEN Callbacks ELSE {DefaultCb}
\* Updater functions (ReturnedUpdateCb) a caller may pass.
Updaters == {"setA", "copyAtoB"}

VARIABLES
  key,       \* _key of each constructed node, NoKey before construction
  props,     \* _props
  state,     \* _state
  children,  \* _children: a sequence of node ids
  parent,    \* _parent: a node id or Null
  stack,     \* the setState activations in progress, innermost last
  events,    \* hook / render / callback invocations of the current operation
  last,      \* the operation performed by the latest step
  nops,      \* operations performed so far
  crashed    \* the process has been terminated by undefined behaviour

vars == <<key, props, state, children, parent, stack, events, last, nops, crashed>>

Alive == {n \in Nodes : key[n] # NoKey}

\* Sequences over S of length at most n.
SeqsUpTo(S, n) == UNION {[1 .. m -> S] : m \in 0 .. n}

\* ------------------------------------------------------- children algorithms
\* The predicate both addChild and removeChild hand to the std algorithm:
\* c && c->getKey() == k.
KeyMatches(keyf, c, k) == c # Null /\ keyf[c] = k

\* std::find_if over _children: the first matching position, or end().
find_if(list, keyf, k) ==
  LET hits == {i \in 1 .. Len(list) : KeyMatches(keyf, list[i], k)}
  IN  IF hits = {} THEN Len(list) + 1
      ELSE CHOOSE i \in hits : \A j \in hits : i <= j

\* The compaction loop of std::remove_if: each kept element is move-assigned
\* to the result position, which leaves a null shared_ptr where it came from.
RECURSIVE remove_if_loop(_, _, _, _, _)
remove_if_loop(list, keyf, k, i, result) ==
  IF i > Len(list) THEN [list |-> list, pos |-> result]
  ELSE IF KeyMatches(keyf, list[i], k)
    THEN remove_if_loop(list, keyf, k, i + 1, result)
    ELSE remove_if_loop([list EXCEPT ![result] = list[i], ![i] = Null],
                        keyf, k, i + 1, result + 1)

\* remove_if without the compaction: the matching entry stays where it is.
remove_if_unmoved(list, keyf, k) ==
  LET first == find_if(list, keyf, k)
  IN  IF first > Len(list) THEN [list |-> list, pos |-> first]
      ELSE [list |-> list, pos |-> Len(list)]

\* std::remove_if: the compacted list and the new logical end.
remove_if(list, keyf, k) ==
  LET first == find_if(list, keyf, k)
  IN  IF first > Len(list) THEN [list |-> list, pos |-> first]
      ELSE remove_if_loop(list, keyf, k, first + 1, first)

DropAt(list, pos) ==
  [i \in 1 .. Len(list) - 1 |-> IF i < pos THEN list[i] ELSE list[i + 1]]

\* vector::erase(position), the single-iterator form. Erasing end() is
\* undefined: the builds either leave the vector alone, drop its last
\* element (the finish pointer is decremented) or run off the buffer.
erase(list, pos) ==
  IF pos <= Len(list)
  THEN {[list |-> DropAt(list, pos), crashed |-> FALSE]}
  ELSE {[list |-> list, crashed |-> FALSE],
        [list |-> DropAt(list, Len(list)), crashed |-> FALSE],
        [list |-> list, crashed |-> TRUE]}

\* addChild without the duplicate check.
addChildToNoDedupe(ch, par, keyf, n, c) ==
  IF c = Null THEN [ch |-> ch, par |-> par]
  ELSE [ch |-> [ch EXCEPT ![n] = Append(@, c)],
        par |-> [par EXCEPT ![c] = n]]

\* addChild without component->setParent(this).
addChildToNoLink(ch, par, keyf, n, c) ==
  IF c = Null THEN [ch |-> ch, par |-> par]
  ELSE IF find_if(ch[n], keyf, keyf[c]) = Len(ch[n]) + 1
    THEN [ch |-> [ch EXCEPT ![n] = Append(@, c)], par |-> par]
    ELSE [ch |-> ch, par |-> par]

\* addChild that sets the back-reference of a component it refuses.
addChildToLinkRejected(ch, par, keyf, n, c) ==
  IF c = Null THEN [ch |-> ch, par |-> par]
  ELSE IF find_if(ch[n], keyf, keyf[c]) = Len(ch[n]) + 1
    THEN [ch |-> [ch EXCEPT ![n] = Append(@, c)],
          par |-> [par EXCEPT ![c] = n]]
    ELSE [ch |-> ch, par |-> [par EXCEPT ![c] = n]]

\* addChild on the tree (ch, par): append and link unless null or duplicate.
addChildTo(ch, par, keyf, n, c) ==
  IF c = Null THEN [ch |-> ch, par |-> par]
  ELSE IF find_if(ch[n], keyf, keyf[c]) = Len(ch[n]) + 1
    THEN [ch |-> [ch EXCEPT ![n] = Append(@, c)],
          par |-> [par EXCEPT ![c] = n]]
    ELSE [ch |-> ch, par |-> par]

\* addChildren: addChild on each non-null element, in order.
RECURSIVE addChildrenTo(_, _, _, _, _)
addChildrenTo(ch, par, keyf, n, list) ==
  IF list = <<>> THEN [ch |-> ch, par |-> par]
  ELSE IF Head(list) = Null
    THEN addChildrenTo(ch, par, keyf, n, Tail(list))
    ELSE LET t == addChildTo(ch, par, keyf, n, Head(list))
         IN  addChildrenTo(t.ch, t.par, keyf, n, Tail(list))

\* --------------------------------------------------------------- operations
NoOp == [op |-> "none", node |-> Null, arg |-> Null, hit |-> FALSE]

Idle == stack = <<>> /\ ~crashed

Init ==
  /\ key = [n \in Nodes |-> NoKey]
  /\ props = [n \in Nodes |-> "{}"]
  /\ state = [n \in Nodes |-> EmptyDoc]
  /\ children = [n \in Nodes |-> <<>>]
  /\ parent = [n \in Nodes |-> Null]
  /\ stack = <<>>
  /\ events = <<>>
  /\ last = NoOp
  /\ nops = 0
  /\ crashed = FALSE

\* A constructor that renders the new component once its children are added.
ConstructRendering(n, k, p, list) ==
  /\ Idle
  /\ n \notin Alive
  /\ \A m \in Nodes : m < n => m \in Alive
  /\ LET keyf == [key EXCEPT ![n] = k]
         t == addChildrenTo(children, parent, keyf, n, list)
     IN  /\ key' = keyf
         /\ props' = [props EXCEPT ![n] = p]
         /\ children' = t.ch
         /\ parent' = t.par
  /\ events' = << [call |-> 1, node |-> n, name |-> "render", props |-> p,
                    doc |-> EmptyDoc, force |-> TRUE, cb |-> "none",
                    seen |-> EmptyDoc] >>
  /\ last' = [NoOp EXCEPT !.op = "construct", !.node = n]
  /\ UNCHANGED <<state, stack, nops, crashed>>

\* Component(key, props, children): the next object is built from components
\* that already exist (or null entries).
Construct(n, k, p, list) ==
  /\ Idle
  /\ n \notin Alive
  /\ \A m \in Nodes : m < n => m \in Alive
  /\ LET keyf == [key EXCEPT ![n] = k]
         t == addChildrenTo(children, parent, keyf, n, list)
     IN  /\ key' = keyf
         /\ props' = [props EXCEPT ![n] = p]
         /\ children' = t.ch
         /\ parent' = t.par
  /\ events' = <<>>
  /\ last' = [NoOp EXCEPT !.op = "construct", !.node = n]
  /\ UNCHANGED <<state, stack, nops, crashed>>

addChild(n, c) ==
  /\ Idle /\ nops < MaxOps
  /\ LET t == addChildTo(children, parent, key, n, c)
     IN  /\ children' = t.ch
         /\ parent' = t.par
         /\ last' = [NoOp EXCEPT !.op = "addChild", !.node = n, !.arg = c,
                                 !.hit = (t.ch # children)]
  /\ events' = <<>>
  /\ nops' = nops + 1
  /\ UNCHANGED <<key, props, state, stack, crashed>>

addChildren(n, list) ==
  /\ Idle /\ nops < MaxOps
  /\ LET t == addChildrenTo(children, parent, key, n, list)
     IN  /\ children' = t.ch
         /\ parent' = t.par
         /\ last' = [NoOp EXCEPT !.op = "addChildren", !.node = n,
                                 !.hit = (t.ch # children)]
  /\ events' = <<>>
  /\ nops' = nops + 1
  /\ UNCHANGED <<key, props, state, stack, crashed>>

\* The body of removeChild(const std::string&); c is the component the call
\* was forwarded from, if any.
removeChildBody(n, k, c) ==
  /\ Idle /\ nops < MaxOps
  /\ IF children[n] = <<>>
     THEN UNCHANGED <<children, crashed>>
     ELSE LET r == remove_if(children[n], key, k)
          IN  \E out \in erase(r.list, r.pos) :
                /\ children' = [children EXCEPT ![n] = out.list]
                /\ crashed' = out.crashed
  /\ last' = [NoOp EXCEPT !.op = "removeChild", !.node = n, !.arg = c,
                !.hit = (find_if(children[n], key, k) <= Len(children[n]))]
  /\ events' = <<>>
  /\ nops' = nops + 1
  /\ UNCHANGED <<key, props, state, parent, stack>>

\* removeChild(const std::string&)
removeChildKey(n, k) == removeChildBody(n, k, Null)

\* removeChild(SharedComponent) that removes only the very component passed.
removeChildByIdentity(n, c) ==
  IF c = Null \/ \A i \in 1 .. Len(children[n]) : children[n][i] # c
  THEN /\ Idle /\ nops < MaxOps
       /\ last' = [NoOp EXCEPT !.op = "removeChild", !.node = n, !.arg = c]
       /\ events' = <<>>
       /\ nops' = nops + 1
       /\ UNCHANGED <<key, props, state, children, parent, stack, crashed>>
  ELSE removeChildBody(n, key[c], c)

\* removeChild(SharedComponent)
removeChild(n, c) ==
  IF c = Null
  THEN /\ Idle /\ nops < MaxOps
       /\ last' = [NoOp EXCEPT !.op = "removeChild", !.node = n]
       /\ events' = <<>>
       /\ nops' = nops + 1
       /\ UNCHANGED <<key, props, state, children, parent, stack, crashed>>
  ELSE removeChildBody(n, key[c], c)

\* ------------------------------------------------------------ update protocol
\* The shallow-merge loop: newState[it.key()] = it.value() for each key of
\* nextState.
RECURSIVE ShallowMergeLoop(_, _, _)
ShallowMergeLoop(newState, nextState, keys) ==
  IF keys = {} THEN newState
  ELSE LET k == CHOOSE x \in keys : TRUE
       IN  ShallowMergeLoop([newState EXCEPT ![k] = nextState[k]], nextState,
                            keys \ {k})

\* A merge that replaces the state by nextState.
ShallowMergeReplace(cur, nextState) == nextState

ShallowMerge(cur, nextState) ==
  ShallowMergeLoop(cur, nextState, DocKeysOf(nextState))

\* The updater functions callers pass to the second overload.
ApplyUpdater(f, prevState, currentProps) ==
  IF f = "setA" THEN [EmptyDoc EXCEPT !["a"] = "v1"]
  ELSE [EmptyDoc EXCEPT !["b"] = prevState["a"]]

Event(id, n, name, doc, cb) ==
  [call |-> id, node |-> n, name |-> name, props |-> props[n], doc |-> doc,
   force |-> (name = "render"), cb |-> cb, seen |-> state[n]]

Top == stack[Len(stack)]
HookPcs == {"shouldComponentUpdate", "componentWillUpdate", "componentDidUpdate"}
CallsBegun == Cardinality({i \in 1 .. Len(events) :
                            events[i].name = "shouldComponentUpdate"})

\* A caller may start setState on n: from outside when no call is running, or
\* from inside a hook of a call running on n.
CanCall(n) ==
  /\ ~crashed
  /\ IF stack = <<>> THEN nops < MaxUpdates
     ELSE /\ Top.node = n
          /\ Top.pc \in HookPcs
          /\ CallsBegun <= MaxNested

\* setState(nextState, cb) up to the call of the update gate.
BeginSetState(n, overload, nextState, userCb, cb) ==
  LET id == IF stack = <<>> THEN 1 ELSE CallsBegun + 1
      newState == ShallowMerge(state[n], nextState)
      frame == [id |-> id, node |-> n, overload |-> overload,
                nextState |-> nextState, userCb |-> userCb, cb |-> cb,
                prevState |-> state[n], newState |-> newState,
                pc |-> "shouldComponentUpdate", gate |-> FALSE,
                reentered |-> FALSE]
      gateEv == Event(id, n, "shouldComponentUpdate", newState, "none")
  IN  /\ IF stack = <<>>
         THEN /\ stack' = <<frame>>
              /\ events' = <<gateEv>>
              /\ nops' = nops + 1
         ELSE /\ stack' = Append([stack EXCEPT ![Len(stack)].reentered = TRUE],
                                 frame)
              /\ events' = Append(events, gateEv)
              /\ nops' = nops
      /\ last' = [NoOp EXCEPT !.op = "setState", !.node = n]
      /\ UNCHANGED <<key, props, state, children, parent, crashed>>

\* setState(const State&, const UpdateCb&)
setState(n, nextState, cb) ==
  /\ CanCall(n)
  /\ BeginSetState(n, "literal", nextState, cb, cb)

\* setState(const ReturnedUpdateCb&, const UpdateCb&): the second argument
\* is unnamed and the call is forwarded with the default callback.
setStateUpdater(n, f, cb) ==
  /\ CanCall(n)
  /\ BeginSetState(n, "updater", ApplyUpdater(f, state[n], props[n]), cb,
                   DefaultCb)

\* An assignment that also pushes the new state down to the node's children.
AssignAndCallBackDownwards(f) ==
  /\ state' = [m \in Nodes |->
                 IF m = f.node \/ \E i \in 1 .. Len(children[f.node]) :
                                     children[f.node][i] = m
                 THEN f.newState ELSE state[m]]
  /\ events' = events \o
       << Event(f.id, f.node, "assign", f.newState, "none"),
          [Event(f.id, f.node, "cb", f.prevState, f.cb)
             EXCEPT !.seen = f.newState] >>

\* _state = newState; cb(prevState, _props);
AssignAndCallBack(f) ==
  /\ state' = [state EXCEPT ![f.node] = f.newState]
  /\ events' = events \o
       << Event(f.id, f.node, "assign", f.newState, "none"),
          [Event(f.id, f.node, "cb", f.prevState, f.cb)
             EXCEPT !.seen = f.newState] >>

\* An update that ignores the gate's answer.
UpdateAllowedAlways(b) == TRUE

\* if (shouldComponentUpdate(_props, newState)) { ... }
UpdateAllowed(b) == b

\* shouldComponentUpdate returns b.
gateReturns(b) ==
  /\ ~crashed /\ stack # <<>> /\ Top.pc = "shouldComponentUpdate"
  /\ IF UpdateAllowed(b)
     THEN /\ stack' = [stack EXCEPT ![Len(stack)].pc = "componentWillUpdate",
                                    ![Len(stack)].gate = b]
          /\ events' = Append(events, Event(Top.id, Top.node,
                                 "componentWillUpdate", Top.newState, "none"))
          /\ UNCHANGED state
     ELSE /\ stack' = [stack EXCEPT ![Len(stack)].pc = "cb",
                                    ![Len(stack)].gate = b]
          /\ AssignAndCallBack(Top)
  /\ UNCHANGED <<key, props, children, parent, last, nops, crashed>>

\* The post-update hook entered before the render.
willReturnsDidFirst ==
  /\ ~crashed /\ stack # <<>> /\ Top.pc = "componentWillUpdate"
  /\ stack' = [stack EXCEPT ![Len(stack)].pc = "componentDidUpdate"]
  /\ events' = events \o
       << Event(Top.id, Top.node, "componentDidUpdate", Top.prevState, "none"),
          Event(Top.id, Top.node, "render", EmptyDoc, "none") >>
  /\ UNCHANGED <<key, props, state, children, parent, last, nops, crashed>>

\* componentWillUpdate returns; render(true) runs; componentDidUpdate is
\* entered.
willReturns ==
  /\ ~crashed /\ stack # <<>> /\ Top.pc = "componentWillUpdate"
  /\ stack' = [stack EXCEPT ![Len(stack)].pc = "componentDidUpdate"]
  /\ events' = events \o
       << Event(Top.id, Top.node, "render", EmptyDoc, "none"),
          Event(Top.id, Top.node, "componentDidUpdate", Top.prevState, "none") >>
  /\ UNCHANGED <<key, props, state, children, parent, last, nops, crashed>>

\* componentDidUpdate returns; the state is assigned and the callback runs.
didReturns ==
  /\ ~crashed /\ stack # <<>> /\ Top.pc = "componentDidUpdate"
  /\ stack' = [stack EXCEPT ![Len(stack)].pc = "cb"]
  /\ AssignAndCallBack(Top)
  /\ UNCHANGED <<key, props, children, parent, last, nops, crashed>>

\* The completion callback returns, and with it setState. The log of a
\* top-level call is dropped once the call has returned.
cbReturns ==
  /\ ~crashed /\ stack # <<>> /\ Top.pc = "cb"
  /\ stack' = SubSeq(stack, 1, Len(stack) - 1)
  /\ events' = IF Len(stack) = 1 THEN <<>> ELSE events
  /\ UNCHANGED <<key, props, state, children, parent, last, nops, crashed>>

\* A forced update that goes through the pre- and post-update hooks.
forceUpdateThroughHooks(n) ==
  /\ Idle /\ nops < MaxUpdates
  /\ events' = << Event(1, n, "componentWillUpdate", state[n], "none"),
                  Event(1, n, "render", EmptyDoc, "none"),
                  Event(1, n, "componentDidUpdate", state[n], "none") >>
  /\ last' = [NoOp EXCEPT !.op = "forceUpdate", !.node = n]
  /\ nops' = nops + 1
  /\ UNCHANGED <<key, props, state, children, parent, stack, crashed>>

\* forceUpdate(): render(true)
forceUpdate(n) ==
  /\ Idle /\ nops < MaxUpdates
  /\ events' = << Event(1, n, "render", EmptyDoc, "none") >>
  /\ last' = [NoOp EXCEPT !.op = "forceUpdate", !.node = n]
  /\ nops' = nops + 1
  /\ UNCHANGED <<key, props, state, children, parent, stack, crashed>>

\* A clear that also resets the back-reference of the children it drops.
removeChildrenUnlink(n) ==
  /\ Idle /\ nops < MaxOps
  /\ children' = [children EXCEPT ![n] = <<>>]
  /\ parent' = [c \in Nodes |->
                  IF \E i \in 1 .. Len(children[n]) : children[n][i] = c
                  THEN Null ELSE parent[c]]
  /\ last' = [NoOp EXCEPT !.op = "removeChildren", !.node = n,
                          !.hit = (children[n] # <<>>)]
  /\ events' = <<>>
  /\ nops' = nops + 1
  /\ UNCHANGED <<key, props, state, stack, crashed>>

\* A clear that only pops the last child.
removeChildrenPopBack(n) ==
  /\ Idle /\ nops < MaxOps
  /\ children' = [children EXCEPT ![n] = SubSeq(@, 1, Len(@) - 1)]
  /\ last' = [NoOp EXCEPT !.op = "removeChildren", !.node = n,
                          !.hit = (children[n] # <<>>)]
  /\ events' = <<>>
  /\ nops' = nops + 1
  /\ UNCHANGED <<key, props, state, parent, stack, crashed>>

\* removeChildren(): _children.clear()
removeChildren(n) ==
  /\ Idle /\ nops < MaxOps
  /\ children' = [children EXCEPT ![n] = <<>>]
  /\ last' = [NoOp EXCEPT !.op = "removeChildren", !.node = n,
                          !.hit = (children[n] # <<>>)]
  /\ events' = <<>>
  /\ nops' = nops + 1
  /\ UNCHANGED <<key, props, state, parent, stack, crashed>>

Constructs ==
  \E n \in Nodes, list \in SeqsUpTo(Alive \cup {Null}, MaxList) :
    Construct(n, KeyOf(n), PropsOf(n), list)

ConstructsKeyed ==
  \E n \in Nodes, list \in SeqsUpTo(Alive \cup {Null}, MaxList) :
    \E k \in KeysFor(n) : Construct(n, k, PropsOf(n), list)

\* The operations on the children list.
NextTree ==
  \/ ConstructsKeyed
  \/ \E n \in Alive, c \in Alive \cup {Null} : addChild(n, c)
  \/ \E n \in Alive, list \in SeqsUpTo(Alive \cup {Null}, MaxList) :
        addChildren(n, list)
  \/ \E n \in Alive, k \in Keys : removeChildKey(n, k)
  \/ \E n \in Alive, c \in Alive \cup {Null} : removeChild(n, c)
  \/ \E n \in Alive : removeChildren(n)

\* The update protocol, hooks included.
NextUpdate ==
  \/ Constructs
  \/ \E n \in Alive, d \in Partials, cb \in CallbacksAt(stack) :
        setState(n, d, cb)
  \/ \E n \in Alive, f \in Updaters, cb \in Callbacks :
        stack = <<>> /\ setStateUpdater(n, f, cb)
  \/ \E b \in BOOLEAN : gateReturns(b)
  \/ willReturns
  \/ didReturns
  \/ cbReturns
  \/ \E n \in Alive : forceUpdate(n)

Next == NextTree \/ NextUpdate

Spec == Init /\ [][Next]_vars
SpecTree == Init /\ [][NextTree]_vars
SpecUpdate == Init /\ [][NextUpdate]_vars

\* ------------------------------------------------------------------ claims
Elems(list) == {list[i] : i \in 1 .. Len(list)}
HasKey(n, k) == \E i \in 1 .. Len(children[n]) : KeyMatches(key, children[n][i], k)

\* The events of the setState call with the given id, in order.
CallLog(id) ==
  LET OfCall(e) == e.call = id
  IN  SelectSeq(events, OfCall)
Names(log) == [i \in 1 .. Len(log) |-> log[i].name]
\* A setState call whose completion callback is running.
AtCallback == stack # <<>> /\ Top.pc = "cb"

\* C1 (part): no children list holds two entries with the same key.
C1_UniqueKeys ==
  \A n \in Nodes : \A i, j \in 1 .. Len(children[n]) :
    (i # j /\ children[n][i] # Null /\ children[n][j] # Null)
      => key[children[n][i]] # key[children[n][j]]

\* C1 (part): addChild of a component whose key an existing child has leaves
\* the children list as it was.
C1_DupAddKeepsList ==
  LET n == last'.node
      c == last'.arg
  IN  (last'.op = "addChild" /\ c # Null /\ addChild(n, c) /\ HasKey(n, key[c]))
        => children'[n] = children[n]

\* C1: key uniqueness. In every reachable state no children list holds two
\* entries with the same key, and an addChild whose argument's key equals an
\* existing child's key leaves the list unchanged (the first-added child stays).
C1_KeyUniqueness == []C1_UniqueKeys /\ [][C1_DupAddKeepsList]_vars

\* A component was refused because another component with its key is a child.
C1_Witness ==
  /\ last.op = "addChild" /\ last.arg # Null /\ ~last.hit
  /\ last.arg \notin Elems(children[last.node])
  /\ HasKey(last.node, key[last.arg])

\* C2: shallow merge. When a setState whose hooks did not re-enter setState
\* returns, the state holds nextState's value for each key of nextState and the
\* value it had when the call began for every other key, gate or no gate.
C2_ShallowMerge ==
  [][(cbReturns /\ ~Top.reentered) =>
       \A k \in DocKeys :
         state'[Top.node][k] = IF Top.nextState[k] # Absent
                               THEN Top.nextState[k]
                               ELSE Top.prevState[k]]_vars

\* A merge that leaves one key alone, overwrites one and adds one.
C2_Witness ==
  /\ AtCallback /\ ~Top.reentered
  /\ \E k \in DocKeys : Top.prevState[k] # Absent /\ Top.nextState[k] = Absent
                        /\ state[Top.node][k] = Top.prevState[k]
  /\ \E k \in DocKeys : Top.prevState[k] # Absent /\ Top.nextState[k] # Absent
                        /\ Top.nextState[k] # Top.prevState[k]
                        /\ state[Top.node][k] = Top.nextState[k]
  /\ \E k \in DocKeys : Top.prevState[k] = Absent /\ Top.nextState[k] # Absent
                        /\ state[Top.node][k] = Top.nextState[k]

\* The six events of an allowed update, each once and in order, with their
\* arguments.
C3_Order(f) ==
  LET log == CallLog(f.id)
  IN  /\ Names(log) = <<"shouldComponentUpdate", "componentWillUpdate", "render",
                        "componentDidUpdate", "assign", "cb">>
      /\ \A i \in 1 .. Len(log) : log[i].node = f.node /\ log[i].props = props[f.node]
      /\ log[1].doc = f.newState
      /\ log[2].doc = f.newState
      /\ log[3].force
      /\ log[4].doc = f.prevState
      /\ log[5].doc = f.newState
      /\ log[6].doc = f.prevState

\* getState() as read on entry to componentWillUpdate, render and
\* componentDidUpdate is the state the call started from.
C3_HooksSeePrevState(f) ==
  LET log == CallLog(f.id)
  IN  \A i \in {2, 3, 4} : i <= Len(log) => log[i].seen = f.prevState

\* C3 as stated: when the gate returns true the events of the call occur once
\* each in the order gate, pre-update hook, render(true), post-update hook,
\* assignment, callback; getState() read during the pre-update hook, the render
\* and the post-update hook is the pre-merge state, and during the callback the
\* merged state.
C3_HookOrdering_AsStated ==
  (AtCallback /\ Top.gate) =>
    /\ C3_Order(Top)
    /\ C3_HooksSeePrevState(Top)
    /\ state[Top.node] = Top.newState

\* C3 as amended: the same order; the hooks and the render read the pre-merge
\* state provided no hook of the call re-entered setState on the node.
C3_HookOrdering ==
  (AtCallback /\ Top.gate) =>
    /\ C3_Order(Top)
    /\ (~Top.reentered => C3_HooksSeePrevState(Top))
    /\ state[Top.node] = Top.newState

\* An allowed update that changes the state has reached its callback.
C3_Witness ==
  /\ AtCallback /\ Top.gate /\ ~Top.reentered
  /\ Top.newState # Top.prevState
  /\ Len(CallLog(Top.id)) = 6

\* C4: gate short-circuit. When shouldComponentUpdate returns false the call
\* invokes neither componentWillUpdate, render nor componentDidUpdate, and
\* still assigns the merged state and runs the completion callback.
C4_GateShortCircuit ==
  (AtCallback /\ ~Top.gate) =>
    /\ Names(CallLog(Top.id)) = <<"shouldComponentUpdate", "assign", "cb">>
    /\ state[Top.node] = Top.newState

\* A refused update that changes the state has reached its callback.
C4_Witness ==
  /\ AtCallback /\ ~Top.gate
  /\ Top.newState # Top.prevState
  /\ state[Top.node] = Top.newState

\* C5: completion callback. In either overload the callback the caller
\* supplied is invoked exactly once, with the state the node held when the call
\* began and the current props, whether or not the gate allowed the update.
C5_CompletionCallback ==
  AtCallback =>
    LET log == CallLog(Top.id)
        cbs == {i \in 1 .. Len(log) : log[i].name = "cb"}
    IN  /\ Cardinality(cbs) = 1
        /\ \A i \in cbs : /\ log[i].cb = Top.userCb
                          /\ log[i].doc = Top.prevState
                          /\ log[i].props = props[Top.node]

\* C6: no-match removal is a no-op. removeChild with a key no child has leaves
\* the children list as it was and does not fail.
C6_NoMatchRemovalIsNoOp ==
  [][last'.op = "removeChild" =>
       \A k \in Keys :
         (removeChildBody(last'.node, k, last'.arg) /\ ~HasKey(last'.node, k))
           => (children' = children /\ ~crashed')]_vars

\* C7: removal of a present key. removeChild(k) on a list holding a child
\* with key k takes out exactly that entry: the size drops by one and the other
\* children keep their order.
C7_RemovesExactlyThatEntry ==
  [][last'.op = "removeChild" =>
       LET n == last'.node
       IN  \A k \in Keys :
             (removeChildBody(n, k, last'.arg) /\ HasKey(n, k)) =>
               /\ ~crashed'
               /\ Len(children'[n]) = Len(children[n]) - 1
               /\ \E i \in 1 .. Len(children[n]) :
                    /\ key[children[n][i]] = k
                    /\ \A j \in 1 .. Len(children'[n]) :
                         children'[n][j] = children[n][IF j < i THEN j ELSE j + 1]
               /\ \A m \in Nodes \ {n} : children'[m] = children[m]]_vars

\* A child was removed from a list of three: two others remain.
C7_Witness ==
  /\ last.op = "removeChild" /\ last.hit
  /\ Len(children[last.node]) >= 2

\* C8: parent linking. Whenever an add appends a child to a node's children
\* list, at construction or later, the child's parent is that node right after.
C8_ParentLinked ==
  [][\A n \in Nodes, c \in Nodes :
       (c \in Elems(children'[n]) /\ c \notin Elems(children[n]))
         => parent'[c] = n]_vars

\* A node was constructed with a child that another node already holds, and
\* the child's parent is the new node.
C8_Witness ==
  /\ last.op = "construct"
  /\ \E c \in Elems(children[last.node]) :
       /\ parent[c] = last.node
       /\ \E m \in Nodes \ {last.node} : c \in Elems(children[m])

\* C9: exclusive ownership. No node is in the children lists of two distinct
\* nodes at the same time.
C9_NoSharedChild ==
  \A c \in Nodes : \A p, q \in Nodes :
    (c \in Elems(children[p]) /\ c \in Elems(children[q])) => p = q

\* What the primary overload logs for setState(f.nextState, f.userCb) started
\* on a node in state f.prevState whose hooks do not re-enter.
PrimaryLog(f) ==
  LET ev(name, doc, cb, seen) ==
        [call |-> f.id, node |-> f.node, name |-> name, props |-> props[f.node],
         doc |-> doc, force |-> (name = "render"), cb |-> cb, seen |-> seen]
      merged == [k \in DocKeys |-> IF f.nextState[k] # Absent
                                  THEN f.nextState[k] ELSE f.prevState[k]]
      gate == <<ev("shouldComponentUpdate", merged, "none", f.prevState)>>
      hooks == <<ev("componentWillUpdate", merged, "none", f.prevState),
                 ev("render", EmptyDoc, "none", f.prevState),
                 ev("componentDidUpdate", f.prevState, "none", f.prevState)>>
      tail == <<ev("assign", merged, "none", f.prevState),
                ev("cb", f.prevState, f.userCb, merged)>>
  IN  IF f.gate THEN gate \o hooks \o tail ELSE gate \o tail

\* C10: updater overload equivalence. setState(f, cb) yields the final state
\* and the sequence of gate, hook, render and callback invocations, arguments
\* included, of the primary overload called as setState(f(state, props), cb).
C10_UpdaterEquivalence ==
  (AtCallback /\ Top.overload = "updater" /\ ~Top.reentered) =>
    /\ CallLog(Top.id) = PrimaryLog(Top)
    /\ state[Top.node] = ShallowMerge(Top.prevState, Top.nextState)

\* C11: forceUpdate invokes render exactly once, with force = true, and none of
\* shouldComponentUpdate, componentWillUpdate and componentDidUpdate; the
\* node's state, props, key, children and parent are what they were.
C11_ForceUpdateRendersOnly ==
  [][(last'.op = "forceUpdate" /\ forceUpdate(last'.node)) =>
       LET n == last'.node
       IN  /\ Len(events') = 1
           /\ events'[1].name = "render" /\ events'[1].force
           /\ events'[1].node = n
           /\ \A i \in 1 .. Len(events') : events'[i].name \notin HookPcs
           /\ state'[n] = state[n] /\ props'[n] = props[n] /\ key'[n] = key[n]
           /\ children'[n] = children[n] /\ parent'[n] = parent[n]
           /\ stack' = <<>> /\ ~crashed']_vars

\* forceUpdate ran on a node that has a state, a child and a parent.
C11_Witness ==
  /\ last.op = "forceUpdate"
  /\ Len(events) = 1 /\ events[1].name = "render"
  /\ state[last.node] # EmptyDoc
  /\ children[last.node] # <<>>
  /\ parent[last.node] # Null

\* C12: removeChildren clears unconditionally. After removeChildren() the
\* children list of the node has size 0 whatever it held, and the call invokes
\* no lifecycle hook and no render, on the node or on a removed child.
C12_RemoveChildrenClears ==
  [][(last'.op = "removeChildren" /\ removeChildren(last'.node)) =>
       /\ Len(children'[last'.node]) = 0
       /\ events' = <<>>
       /\ stack' = <<>> /\ ~crashed']_vars

\* The only operation after the constructions cleared a list of two children.
C12_Witness ==
  /\ last.op = "removeChildren" /\ last.hit /\ nops = 1
  /\ children[last.node] = <<>>
  /\ Cardinality({c \in Nodes : parent[c] = last.node}) >= 2

\* The entries of list that addChildren accepts, in order: those that are not
\* null and whose key neither an existing child nor an earlier accepted entry
\* has.
RECURSIVE Accepted(_, _)
Accepted(list, taken) ==
  IF list = <<>> THEN <<>>
  ELSE IF Head(list) = Null \/ key[Head(list)] \in taken
    THEN Accepted(Tail(list), taken)
    ELSE <<Head(list)>> \o Accepted(Tail(list), taken \cup {key[Head(list)]})

\* C13 (part): addChild(null) and addChild of a duplicate key change no
\* children list and no back-reference, and do not fail.
C13_RejectedAddChild ==
  LET n == last'.node
      c == last'.arg
  IN  (last'.op = "addChild" /\ addChild(n, c) /\ (c = Null \/ HasKey(n, key[c])))
        => /\ children' = children
           /\ parent' = parent
           /\ ~crashed' /\ events' = <<>>

\* C13 (part): addChildren appends exactly the accepted entries, in order, and
\* links exactly those; every other list and back-reference stays.
C13_AddChildrenSkips ==
  last'.op = "addChildren" =>
    LET n == last'.node
    IN  \A list \in SeqsUpTo(Alive \cup {Null}, MaxList) :
          addChildren(n, list) =>
            LET acc == Accepted(list, {key[c] : c \in Elems(children[n])})
            IN  /\ children'[n] = children[n] \o acc
                /\ \A m \in Nodes \ {n} : children'[m] = children[m]
                /\ \A c \in Nodes :
                     parent'[c] = IF c \in Elems(acc) THEN n ELSE parent[c]
                /\ ~crashed'

\* C13: rejected adds change nothing. addChild(null) and addChild of a
\* component whose key an existing child has leave the children list and every
\* parent back-reference as they were and raise no error; addChildren skips
\* null entries and applies the same rule to the others in order.
C13_RejectedAddsChangeNothing ==
  [][C13_RejectedAddChild /\ C13_AddChildrenSkips]_vars

\* A component that has another parent, or none, was refused for its key and
\* still has that parent.
C13_Witness ==
  /\ last.op = "addChild" /\ last.arg # Null /\ ~last.hit
  /\ HasKey(last.node, key[last.arg])
  /\ last.arg \notin Elems(children[last.node])
  /\ parent[last.arg] # last.node

\* C14 (part): a removal leaves every back-reference as it was, so a child
\* taken out of the list of the node it points to still points to that node.
C14_RemovalKeepsParent ==
  last'.op \in {"removeChild", "removeChildren"} =>
    LET n == last'.node
    IN  /\ parent' = parent
        /\ \A c \in Elems(children[n]) \ Elems(children'[n]) :
             parent[c] = n => parent'[c] = n

\* C14 (part): a back-reference changes only when a node appends the
\* component to its children list, and then it is that node.
C14_OnlyAddRelinks ==
  \A c \in Nodes :
    parent'[c] # parent[c] =>
      \E n \in Nodes : /\ c \in Elems(children'[n])
                       /\ Len(children'[n]) > Len(children[n])
                       /\ parent'[c] = n

\* C14: removal keeps the stale back-reference. After removeChild (by
\* component or by key) or removeChildren takes a child out of a node's list,
\* the child's getParent() is what it was, the former parent, and stays so
\* until some node successfully adds the child.
C14_StaleBackReference ==
  [][C14_RemovalKeepsParent /\ C14_OnlyAddRelinks]_vars

\* A removal took out a child that still points to the node it was removed
\* from.
C14_Witness ==
  /\ last.op \in {"removeChild", "removeChildren"} /\ last.hit
  /\ \E c \in Nodes : /\ parent[c] = last.node
                       /\ c \notin Elems(children[last.node])
                       /\ \A m \in Nodes : c \notin Elems(children[m])

\* addChild applied to each element of list in order, on node n of the tree
\* (ch, par): the children list n ends up with.
RECURSIVE AddEach(_, _, _, _, _)
AddEach(ch, par, keyf, n, list) ==
  IF list = <<>> THEN ch[n]
  ELSE LET t == addChildTo(ch, par, keyf, n, Head(list))
       IN  AddEach(t.ch, t.par, keyf, n, Tail(list))

\* C15 (part): a construction invokes no gate, hook or render, and the new
\* node holds the list that addChild on each element in order would build on
\* an empty node.
C15_ConstructionIsSilent ==
  last'.op = "construct" =>
    LET n == last'.node
    IN  /\ events' = <<>>
        /\ \A list \in SeqsUpTo(Alive \cup {Null}, MaxList) :
             Construct(n, key'[n], props'[n], list) =>
               children'[n] = AddEach([children EXCEPT ![n] = <<>>], parent,
                                      key', n, list)

\* C15 (part): the gate and the two update hooks are invoked only while a
\* setState call is running.
C15_HooksOnlyInSetState ==
  (\E i \in 1 .. Len(events') : events'[i].name \in HookPcs)
    => (stack' # <<>> /\ last'.op = "setState")

\* C15: construction fires no hooks. Building a node with an initial child
\* list invokes none of shouldComponentUpdate, componentWillUpdate,
\* componentDidUpdate and render, and leaves the node with the list that
\* addChild on each element in order builds on an empty node; the gate and
\* both hooks are only ever invoked from within setState.
C15_ConstructionFiresNoHooks ==
  [][C15_ConstructionIsSilent /\ C15_HooksOnlyInSetState]_vars

\* A node was constructed with two children after a setState had run.
C15_Witness ==
  /\ last.op = "construct" /\ events = <<>>
  /\ Len(children[last.node]) = 2
  /\ \E m \in Nodes : state[m] # EmptyDoc

\* The node a step of the update protocol works on.
UpdatedNode ==
  IF stack # <<>> THEN stack[1].node
  ELSE IF stack' # <<>> THEN stack'[1].node
  ELSE last'.node

\* C16: node-local updates. A step of setState or forceUpdate on a node
\* changes nothing but that node's state (forceUpdate not even that): its key,
\* props, children and parent, and the state, props, children and parent of
\* every other node are what they were, and every gate, hook, render and
\* callback invoked is that node's.
C16_NodeLocalUpdates ==
  [][(stack # <<>> \/ stack' # <<>> \/ last'.op = "forceUpdate") =>
       /\ key' = key /\ props' = props
       /\ children' = children /\ parent' = parent
       /\ \A m \in Nodes \ {UpdatedNode} : state'[m] = state[m]
       /\ \A i \in 1 .. Len(events') : events'[i].node = UpdatedNode
       /\ (last'.op = "forceUpdate" => state' = state)
       /\ ~crashed']_vars

\* A setState has assigned a new state to a node that has a parent and a
\* child, and the child holds a different state of its own.
C16_Witness ==
  /\ AtCallback /\ Top.newState # Top.prevState
  /\ state[Top.node] = Top.newState
  /\ parent[Top.node] # Null
  /\ \E c \in Elems(children[Top.node]) :
       state[c] # EmptyDoc /\ state[c] # state[Top.node]

\* The state the nested calls of the running top-level call left behind: the
\* document of the last assignment made by a call other than the outer one.
NestedResult ==
  LET idx == {i \in 1 .. Len(events) :
                events[i].name = "assign" /\ events[i].call # Top.id}
  IN  events[CHOOSE i \in idx : \A j \in idx : j <= i].doc

\* C17: no lost update under re-entrant setState. When setState(p1) whose
\* hooks called setState on the same node has assigned its state, every key
\* the nested calls changed and p1 does not set still holds the nested value.
C17_NoLostUpdate ==
  (AtCallback /\ Len(stack) = 1 /\ Top.reentered) =>
    \A k \in DocKeys :
      (NestedResult[k] # Top.prevState[k] /\ Top.nextState[k] = Absent)
        => state[Top.node][k] = NestedResult[k]

\* What removeChild(k) may leave of node n's list: the list, and whether the
\* call ran off the vector.
KeyRemovalOutcomes(n, k) ==
  IF children[n] = <<>> THEN {[list |-> <<>>, crashed |-> FALSE]}
  ELSE LET r == remove_if(children[n], key, k)
       IN  erase(r.list, r.pos)

\* C18 (part): removeChild(component) does what removeChild(component's key)
\* does; when a child has that key, that child goes, be it the component passed
\* or another one.
C18_ComponentRemovalIsByKey ==
  LET n == last'.node
      c == last'.arg
  IN  (last'.op = "removeChild" /\ c # Null /\ removeChild(n, c)) =>
        /\ \E out \in KeyRemovalOutcomes(n, key[c]) :
             children'[n] = out.list /\ crashed' = out.crashed
        /\ HasKey(n, key[c]) =>
             /\ ~crashed'
             /\ Len(children'[n]) = Len(children[n]) - 1
             /\ \A i \in 1 .. Len(children'[n]) :
                  key[children'[n][i]] # key[c]
        /\ \A m \in Nodes \ {n} : children'[m] = children[m]
        /\ parent' = parent

\* C18 (part): removeChild(null) changes nothing.
C18_NullRemovalIsNoOp ==
  (last'.op = "removeChild" /\ removeChild(last'.node, Null)) =>
    /\ children' = children /\ parent' = parent
    /\ ~crashed' /\ events' = <<>>

\* C18: removeChild(component) matches by key, not by identity. It has the
\* effect of removeChild(component.getKey()), so a component that is not in the
\* list but whose key an existing child has removes that child;
\* removeChild(null) is a no-op.
C18_RemoveChildMatchesByKey ==
  [][C18_ComponentRemovalIsByKey /\ C18_NullRemovalIsNoOp]_vars

\* A component that was never anybody's child was passed to removeChild and a
\* child with its key was removed.
C18_Witness ==
  /\ last.op = "removeChild" /\ last.arg # Null /\ last.hit
  /\ parent[last.arg] = Null
  /\ ~HasKey(last.node, key[last.arg])

\* The nodes reached from the set S by following children lists at most d
\* times.
RECURSIVE DescendantsWithin(_, _)
DescendantsWithin(S, d) ==
  IF d = 0 THEN S
  ELSE DescendantsWithin(S \cup UNION {Elems(children[m]) : m \in S \ {Null}},
                         d - 1)
Descendants(n) == DescendantsWithin(Elems(children[n]), Cardinality(Nodes))

\* Following getParent() from n reaches an absent parent within d steps.
RECURSIVE ReachesRoot(_, _)
ReachesRoot(n, d) ==
  IF n = Null THEN TRUE
  ELSE IF d = 0 THEN FALSE
  ELSE ReachesRoot(parent[n], d - 1)

\* C19: acyclic tree. In every state reachable by addChild, addChildren,
\* removeChild and removeChildren calls no node is its own child or a
\* descendant of itself, and following getParent() from any node reaches a
\* root in finitely many steps.
C19_AcyclicTree ==
  \A n \in Nodes :
    /\ n \notin Descendants(n)
    /\ ReachesRoot(n, Cardinality(Nodes))

====
